---- MODULE Spec2Model ----
(***************************************************************************)
(* Process instance execution graph of process-engine.js                  *)
(* (src/src/process-instance.js): Node token propagation, the instance     *)
(* lifecycle and persistence, and the engine's live pool.                  *)
(*                                                                         *)
(* One JavaScript turn is one action.  A store operation (insertAsync,     *)
(* updateAsync, findOneAsync and the definition's save) is issued in the   *)
(* turn that calls it and is answered in a later turn; the store answers   *)
(* in the order of issue.  The promise callbacks attached to an operation  *)
(* run in the turn that answers it.                                        *)
(***************************************************************************)
EXTENDS Integers, Sequences, FiniteSets, TLC

\* Bounds of the model.
MaxChain == 3     \* longest linear chain of tasks
MaxCalls == 4     \* API calls and handler reports recorded in one run
MaxObj == 3       \* ProcessInstance objects ever constructed for the id
MaxUnknown == 1   \* completeTask calls made with an id the engine never gave out

\* ProcessInstance.STATUS
STATUS_NEW == "New"
STATUS_RUNNING == "Running"
STATUS_WAITING == "Waiting"
STATUS_COMPLETED == "Completed"
STATUS_FAILED == "Failed"
STATUS == {STATUS_NEW, STATUS_RUNNING, STATUS_WAITING, STATUS_COMPLETED, STATUS_FAILED}

\* error values: null/undefined, and the errors a handler reports
NoError == "null"
Errors == {"E"}

\* process ids: the id createProcessInstance gave the instance, and an id the
\* engine never gave out
InstanceId == 1
UnknownId == 2
ProcessIds == {InstanceId, UnknownId}

\* variables: the map {x: v} is modelled by v
DefVariables == 0
StartVals == {1, 5}
CompleteVals == {2}
NoArg == [given |-> FALSE, x |-> 0]
Arg(v) == [given |-> TRUE, x |-> v]
StartArgs == {NoArg} \cup {Arg(v) : v \in StartVals}
CompleteArgs == {NoArg} \cup {Arg(v) : v \in CompleteVals}

(***************************************************************************)
(* Process definitions: tasks 0..n-1 (0 is the start task) and flows in    *)
(* declaration order.                                                      *)
(***************************************************************************)
Flow(f, t, g) == [from |-> f, to |-> t, guard |-> g]

ChainDef(n) ==
  [types |-> [i \in 0..(n-1) |-> IF i = n-1 THEN "end-task"
                                  ELSE IF i = 0 THEN "start-task" ELSE "task"],
   flows |-> [i \in 1..(n-1) |-> Flow(i-1, i, "true")]]

\* start -> A, start -> B, A -> join, B -> join, join -> end
JoinDef(kind) ==
  [types |-> (0 :> "start-task" @@ 1 :> kind @@ 2 :> kind @@ 3 :> "task" @@ 4 :> "end-task"),
   flows |-> <<Flow(0,1,"true"), Flow(0,2,"true"), Flow(1,3,"true"),
               Flow(2,3,"true"), Flow(3,4,"true")>>]

\* start -> svc -> end
SvcDef ==
  [types |-> (0 :> "start-task" @@ 1 :> "service-task" @@ 2 :> "end-task"),
   flows |-> <<Flow(0,1,"true"), Flow(1,2,"true")>>]

\* start -> decide, decide -> A (x > 0), decide -> B (x <= 0), A -> end, B -> end
DecideDef ==
  [types |-> (0 :> "start-task" @@ 1 :> "decision" @@ 2 :> "task" @@ 3 :> "task" @@ 4 :> "end-task"),
   flows |-> <<Flow(0,1,"true"), Flow(1,2,"pos"), Flow(1,3,"nonpos"),
               Flow(2,4,"true"), Flow(3,4,"true")>>]

\* start -> A(svc), start -> J, A -> J, J -> S(svc), S -> end
NestedDef ==
  [types |-> (0 :> "start-task" @@ 1 :> "service-task" @@ 2 :> "task"
              @@ 3 :> "service-task" @@ 4 :> "end-task"),
   flows |-> <<Flow(0,1,"true"), Flow(0,2,"true"), Flow(1,2,"true"),
               Flow(2,3,"true"), Flow(3,4,"true")>>]

\* start -> X, start -> A(svc), start -> T, A -> X, X -> T, T -> end
TwoJoinDef ==
  [types |-> (0 :> "start-task" @@ 1 :> "task" @@ 2 :> "service-task"
              @@ 3 :> "task" @@ 4 :> "end-task"),
   flows |-> <<Flow(0,1,"true"), Flow(0,2,"true"), Flow(0,3,"true"),
               Flow(2,1,"true"), Flow(1,3,"true"), Flow(3,4,"true")>>]

\* start -> A(svc), start -> end
EarlyEndDef ==
  [types |-> (0 :> "start-task" @@ 1 :> "service-task" @@ 2 :> "end-task"),
   flows |-> <<Flow(0,1,"true"), Flow(0,2,"true")>>]

\* start -> svc -> decide, decide -> end (x > 0)
SvcDecideDef ==
  [types |-> (0 :> "start-task" @@ 1 :> "service-task" @@ 2 :> "decision" @@ 3 :> "end-task"),
   flows |-> <<Flow(0,1,"true"), Flow(1,2,"true"), Flow(2,3,"pos")>>]

Defs == {ChainDef(n) : n \in 1..MaxChain}
          \cup {JoinDef("task"), JoinDef("service-task"), SvcDef, DecideDef,
                NestedDef, TwoJoinDef, EarlyEndDef, SvcDecideDef}

VARIABLES
  def,          \* the process definition of the instance
  defSaved,     \* def._id is set
  objs,         \* the ProcessInstance objects constructed for the instance id
  processPool,  \* engine.processPool[id]: index into objs, 0 when absent
  docs,         \* engine.instanceCollection: the stored documents, by _id
  ops,          \* store operations issued and not yet answered
  log,          \* calls made, flows followed and events emitted, in order
  ncalls,       \* number of calls recorded in log
  result        \* what the caller of the last API call was told: "ok" or the
                \* error its promise was rejected with; "uncaught" once an
                \* error was thrown outside every promise
vars == <<def, defSaved, objs, processPool, docs, ops, log, ncalls, result>>

Tasks == DOMAIN def.types
incomingFlows(t) == SelectSeq(def.flows, LAMBDA f : f.to = t)
outgoingFlows(t) == SelectSeq(def.flows, LAMBDA f : f.from = t)

\* a log entry: a call, a flow followed (arrive) or an event emitted, with the
\* object it happened on
Ev(kind, t, n, s, o) == [ev |-> kind, task |-> t, n |-> n, src |-> s, obj |-> o]

\* new ProcessInstance(def).  pid is _id (0 while it is not set); conts holds
\* the tasks whose complete continuation a task handler was given and has not
\* used; done holds the continuations that were invoked, with their arguments.
ProcessInstance ==
  [status |-> STATUS_NEW, variables |-> 0, error |-> NoError, nodePool |-> <<>>,
   pid |-> 0, conts |-> {}, done |-> {}]

\* one invocation of this.complete.bind(this): the node's task and the arguments
Invocation(t, err, arg) == [task |-> t, err |-> err, arg |-> arg]

\* new Node(task, processInstance).  executed records that execute() ran on
\* this node object.
Node == [incomingFlowCompletedNumber |-> 0, executed |-> FALSE]

Without(f, k) == [j \in (DOMAIN f) \ {k} |-> f[j]]

\* Node.prototype.serialize over the node pool, ProcessInstance.prototype.serialize
serialize(inst) ==
  [pid |-> inst.pid, id |-> InstanceId, status |-> inst.status,
   nodePool |-> [t \in DOMAIN inst.nodePool |-> inst.nodePool[t].incomingFlowCompletedNumber],
   variables |-> inst.variables, error |-> inst.error]

\* deserialize that does not rebuild the node pool
deserialize_noPool(entity) ==
  [status |-> entity.status, variables |-> entity.variables, error |-> entity.error,
   nodePool |-> <<>>, pid |-> 0, conts |-> {}, done |-> {}]

\* Node.deserialize (the node comes from createNode) and ProcessInstance.deserialize
deserialize(entity) ==
  [status |-> entity.status, variables |-> entity.variables, error |-> entity.error,
   nodePool |-> [t \in DOMAIN entity.nodePool |-> Node],
   pid |-> 0, conts |-> {}, done |-> {}]

NoEntity == serialize(ProcessInstance)
\* a store operation; at is the length of the log when it was issued
Op(kind, o, entity, cb, t, arg) ==
  [kind |-> kind, obj |-> o, entity |-> entity, cb |-> cb, task |-> t, arg |-> arg,
   at |-> 0]

(***************************************************************************)
(* A turn works on m = [o, inst, ops, log]: the object it runs on, that    *)
(* object's fields, the store operations issued and the log.               *)
(***************************************************************************)
\* ProcessInstance.prototype.save, with the callback its caller attaches
save(m, cb) ==
  LET entity == serialize(m.inst)
      op == Op(IF entity.pid # 0 THEN "update" ELSE "insert", m.o, entity, cb, 0, NoArg)
  IN  [m EXCEPT !.ops = Append(@, [op EXCEPT !.at = Len(m.log)])]

\* changeStatus that forgets the error
changeStatus_noErr(m, status, err, cb) ==
  save([m EXCEPT !.inst.status = status], cb)

\* ProcessInstance.prototype.changeStatus
changeStatus(m, status, err, cb) ==
  save([m EXCEPT !.inst.status = status, !.inst.error = err], cb)

\* canExecuteNode that asks for one arrival only (an OR-join)
canExecuteNode_any(node, t) ==
  node.incomingFlowCompletedNumber >= 1

\* Node.prototype.canExecuteNode
canExecuteNode(node, t) ==
  node.incomingFlowCompletedNumber = Len(incomingFlows(t))

\* the decision node's canFollowOutgoingFlow: the flow's guard on the variables
decisionCanFollowOutgoingFlow(m, flow) ==
  CASE flow.guard = "pos" -> m.inst.variables > 0
    [] flow.guard = "nonpos" -> m.inst.variables <= 0
    [] OTHER -> TRUE

\* Node.prototype.canFollowOutgoingFlow, by the node type that createNode picked
canFollowOutgoingFlow(m, t, flow) ==
  IF def.types[t] = "decision" THEN decisionCanFollowOutgoingFlow(m, flow) ELSE TRUE

Emit(m, e) == [m EXCEPT !.log = Append(@, e)]

RECURSIVE complete(_, _, _, _)
RECURSIVE followFlows(_, _, _, _)
RECURSIVE execute(_, _)

\* the service-task node's executeInternal: suspend the instance and keep
\* the continuation
serviceExecuteInternal(m, t) ==
  changeStatus([m EXCEPT !.inst.conts = @ \cup {t}], STATUS_WAITING, NoError, "none")

\* Node.prototype.executeInternal, by the node type that createNode picked
executeInternal(m, t) ==
  IF def.types[t] = "service-task"
    THEN serviceExecuteInternal(m, t)
    ELSE complete(m, t, NoError, NoArg)

\* Node.prototype.execute of the node in nodePool[t]
execute(m, t) ==
  executeInternal(
    Emit([m EXCEPT !.inst.nodePool[t].executed = TRUE], Ev("before", t, 0, 0, m.o)), t)

\* the forEach over task.outgoingFlows in Node.prototype.complete
followFlows(m, t, flows, i) ==
  IF i > Len(flows) THEN m
  ELSE
    LET flow == flows[i] IN
    IF ~canFollowOutgoingFlow(m, t, flow) THEN followFlows(m, t, flows, i + 1)
    ELSE
      LET s == flow.to
          old == IF s \in DOMAIN m.inst.nodePool THEN m.inst.nodePool[s] ELSE Node
          node == [old EXCEPT !.incomingFlowCompletedNumber = @ + 1]
          pool == [j \in (DOMAIN m.inst.nodePool) \cup {s} |->
                     IF j = s THEN node ELSE m.inst.nodePool[j]]
          m1 == Emit([m EXCEPT !.inst.nodePool = pool],
                     Ev("arrive", s, node.incomingFlowCompletedNumber, t, m.o))
          m2 == IF canExecuteNode(node, s) THEN execute(m1, s)
                ELSE IF m1.inst.status = STATUS_WAITING THEN save(m1, "none")
                ELSE m1
      IN  followFlows(m2, t, flows, i + 1)

\* complete that never marks the instance COMPLETED after the end-task
complete_noEnd(m, t, err, arg) ==
  IF err # NoError THEN changeStatus(m, STATUS_FAILED, err, "end")
  ELSE
    LET m1 == IF arg.given THEN [m EXCEPT !.inst.variables = arg.x] ELSE m
        m2 == Emit(m1, Ev("after", t, 0, 0, m.o))
        m3 == [m2 EXCEPT !.inst.nodePool = Without(@, t)]
    IN  followFlows(m3, t, outgoingFlows(t), 1)

\* Node.prototype.complete
complete(m, t, err, arg) ==
  IF err # NoError THEN changeStatus(m, STATUS_FAILED, err, "end")
  ELSE
    LET m1 == IF arg.given THEN [m EXCEPT !.inst.variables = arg.x] ELSE m
        m2 == Emit(m1, Ev("after", t, 0, 0, m.o))
        m3 == [m2 EXCEPT !.inst.nodePool = Without(@, t)]
        m4 == followFlows(m3, t, outgoingFlows(t), 1)
    IN  IF def.types[t] = "end-task"
          THEN changeStatus(m4, STATUS_COMPLETED, NoError, "end")
          ELSE m4

\* ProcessInstance.prototype._start
start_(m, arg) ==
  changeStatus([m EXCEPT !.inst.variables = IF arg.given THEN arg.x ELSE DefVariables],
               STATUS_RUNNING, NoError, "startNode")

\* the callback of _start: a base Node on task 0, outside the node pool
startNode(m) ==
  complete(Emit(m, Ev("before", 0, 0, 0, m.o)), 0, NoError, NoArg)

Turn(o, q, l) == [o |-> o, inst |-> objs[o], ops |-> q, log |-> l]

\* the state after a turn that ran on object m.o
Commit(m) ==
  /\ objs' = [objs EXCEPT ![m.o] = m.inst]
  /\ ops' = m.ops
  /\ log' = m.log

Init ==
  /\ def \in Defs
  /\ defSaved \in BOOLEAN
  /\ objs = <<ProcessInstance>>
  /\ processPool = 1
  /\ docs = <<>>
  /\ ops = <<>>
  /\ log = <<>>
  /\ ncalls = 0
  /\ result = "ok"

\* ProcessInstance.prototype.start on the created instance
Start(arg) ==
  /\ ncalls < MaxCalls
  /\ objs[1].status = STATUS_NEW
  /\ \A i \in 1..Len(ops) : ops[i].kind # "defSave"
  /\ LET m == Turn(1, ops, Append(log, Ev("start", 0, arg.x, 0, 1)))
     IN  IF defSaved
           THEN Commit(start_(m, arg))
           ELSE Commit([m EXCEPT !.ops = Append(@, Op("defSave", 1, NoEntity, "start", 0, arg))])
  /\ ncalls' = ncalls + 1
  /\ result' = "ok"
  /\ UNCHANGED <<def, defSaved, processPool, docs>>

\* the callback attached to a store operation, run when it is answered
callback(m, cb) ==
  CASE cb = "startNode" -> startNode(m)
    [] cb = "end" -> Emit(m, Ev("end", 0, 0, 0, m.o))
    [] OTHER -> m

\* insertAsync answered: the store assigns _id, save's then() keeps it
AckInsert ==
  /\ ops # <<>>
  /\ Head(ops).kind = "insert"
  /\ LET op == Head(ops)
         newid == Len(docs) + 1
         m == Turn(op.obj, Tail(ops), log)
     IN  /\ docs' = Append(docs, [op.entity EXCEPT !.pid = newid])
         /\ Commit(callback([m EXCEPT !.inst.pid = newid], op.cb))
  /\ UNCHANGED <<def, defSaved, processPool, ncalls, result>>

\* updateAsync({_id: entity._id}, entity) answered
AckUpdate ==
  /\ ops # <<>>
  /\ Head(ops).kind = "update"
  /\ LET op == Head(ops)
     IN  /\ docs' = [docs EXCEPT ![op.entity.pid] = op.entity]
         /\ Commit(callback(Turn(op.obj, Tail(ops), log), op.cb))
  /\ UNCHANGED <<def, defSaved, processPool, ncalls, result>>

\* def.save() answered: the callback in ProcessInstance.prototype.start
AckDefSave ==
  /\ ops # <<>>
  /\ Head(ops).kind = "defSave"
  /\ LET op == Head(ops)
     IN  Commit(start_(Turn(op.obj, Tail(ops), log), op.arg))
  /\ defSaved' = TRUE
  /\ UNCHANGED <<def, processPool, docs, ncalls, result>>

\* findOneAsync({id: id}) answered: the then() chain of loadProcessInstance,
\* and the done() callback of completeTask when the operation carries a task
AckFind ==
  /\ ops # <<>>
  /\ Head(ops).kind = "find"
  /\ LET op == Head(ops)
         Finish(os, pool) ==
           \* this.processPool[processId].nodePool[taskId].complete(null, variables)
           IF op.task < 0
             THEN /\ objs' = os /\ ops' = Tail(ops) /\ log' = log
                  /\ result' = result
           ELSE IF pool # 0 /\ op.task \in DOMAIN os[pool].nodePool
             THEN LET m == complete([o |-> pool,
                                     inst |-> [os[pool] EXCEPT !.conts = @ \ {op.task}],
                                     ops |-> Tail(ops), log |-> log],
                                    op.task, NoError, op.arg)
                  IN  /\ objs' = [os EXCEPT ![pool] = m.inst]
                      /\ ops' = m.ops /\ log' = m.log
                      /\ result' = result
           ELSE \* the TypeError is thrown in the callback given to done()
                /\ objs' = os /\ ops' = Tail(ops) /\ log' = log
                /\ result' = "uncaught"
         found == {d \in DOMAIN docs : docs[d].id = op.entity.id}
     IN  \/ /\ found = {}
            /\ processPool' = processPool
            /\ Finish(objs, IF op.entity.id = InstanceId THEN processPool ELSE 0)
         \/ \E d \in found :
               /\ processPool' = Len(objs) + 1
               /\ Finish(Append(objs, deserialize(docs[d])), Len(objs) + 1)
  /\ UNCHANGED <<def, defSaved, docs, ncalls>>

\* the continuation of task t is used: a held continuation becomes an invoked one
Invoke(m, t, err, arg) ==
  IF t \in m.inst.conts
    THEN [m EXCEPT !.inst.conts = @ \ {t},
                   !.inst.done = @ \cup {Invocation(t, err, arg)}]
    ELSE m

\* objects constructed so far and loads under way
Loading == Len(SelectSeq(ops, LAMBDA op : op.kind = "find"))
CanLoad == Len(objs) + Loading < MaxObj

NumUnknown == Cardinality({i \in DOMAIN log : log[i].ev = "completeUnknown"})

\* identifiers a caller may pass as taskId: the tasks and one unknown id
TaskIds == Tasks \cup {Cardinality(Tasks)}

\* engineAPI.completeTask
CompleteTask(p, t, arg) ==
  /\ UNCHANGED <<def, defSaved, processPool, docs>>
  /\ IF p # InstanceId \/ processPool = 0
       THEN \* loadProcessInstance(processId).done(...): done() returns undefined
            /\ ncalls < MaxCalls
            /\ CanLoad
            /\ p # InstanceId => NumUnknown < MaxUnknown
            /\ ops' = Append(ops, Op("find", 0, [NoEntity EXCEPT !.id = p], "complete", t, arg))
            /\ log' = Append(log, Ev(IF p = InstanceId THEN "completeTask" ELSE "completeUnknown",
                                     t, arg.x, 0, 0))
            /\ ncalls' = ncalls + 1
            /\ result' = "ok"
            /\ UNCHANGED objs
     ELSE IF t \in DOMAIN objs[processPool].nodePool
       THEN /\ ncalls < MaxCalls
            /\ LET m == Turn(processPool, ops, Append(log, Ev("completeTask", t, arg.x, 0, processPool)))
               IN  Commit(complete(Invoke(m, t, NoError, arg), t, NoError, arg))
            /\ ncalls' = ncalls + 1
            /\ result' = "ok"
     ELSE \* nodePool[taskId] is undefined
          /\ result' = "TypeError"
          /\ UNCHANGED <<objs, ops, log, ncalls>>

\* engineAPI.loadProcessInstance
LoadProcessInstance ==
  /\ UNCHANGED <<def, defSaved, processPool, docs, objs>>
  /\ result' = "ok"
  /\ IF processPool # 0
       THEN UNCHANGED <<ops, log, ncalls>>
       ELSE /\ ncalls < MaxCalls
            /\ CanLoad
            /\ ops' = Append(ops, Op("find", 0, NoEntity, "none", -1, NoArg))
            /\ log' = Append(log, Ev("load", 0, 0, 0, 0))
            /\ ncalls' = ncalls + 1

\* clearPool that evicts the instance whatever its status
ClearPool_all ==
  /\ UNCHANGED <<def, defSaved, docs, objs, ops>>
  /\ result' = "ok"
  /\ IF processPool # 0
       THEN /\ ncalls < MaxCalls
            /\ processPool' = 0
            /\ log' = Append(log, Ev("clearPool", 0, 0, 0, processPool))
            /\ ncalls' = ncalls + 1
       ELSE UNCHANGED <<processPool, log, ncalls>>

\* engineAPI.clearPool
ClearPool ==
  /\ UNCHANGED <<def, defSaved, docs, objs, ops>>
  /\ result' = "ok"
  /\ IF processPool # 0
        /\ objs[processPool].status \in {STATUS_WAITING, STATUS_COMPLETED}
       THEN /\ ncalls < MaxCalls
            /\ processPool' = 0
            /\ log' = Append(log, Ev("clearPool", 0, 0, 0, processPool))
            /\ ncalls' = ncalls + 1
       ELSE UNCHANGED <<processPool, log, ncalls>>

\* a task handler reports an error through the continuation it was given
HandlerFail(o, t, e) ==
  /\ ncalls < MaxCalls
  /\ t \in objs[o].conts
  /\ LET m == Turn(o, ops, Append(log, Ev("fail", t, 0, 0, o)))
     IN  Commit(complete(Invoke(m, t, e, NoArg), t, e, NoArg))
  /\ ncalls' = ncalls + 1
  /\ UNCHANGED <<def, defSaved, processPool, docs, result>>

\* a continuation that was invoked is invoked again with the same arguments
\* (double delivery by the task handler or its transport)
Redeliver(o, d) ==
  /\ ncalls < MaxCalls
  /\ d \in objs[o].done
  /\ LET m == Turn(o, ops, Append(log, Ev("redeliver", d.task, d.arg.x, 0, o)))
     IN  Commit(complete(m, d.task, d.err, d.arg))
  /\ ncalls' = ncalls + 1
  /\ UNCHANGED <<def, defSaved, processPool, docs, result>>

Invocations ==
  {Invocation(t, e, arg) : t \in Tasks, e \in Errors \cup {NoError}, arg \in CompleteArgs}

Next ==
  \/ \E arg \in StartArgs : Start(arg)
  \/ \E t \in TaskIds, arg \in CompleteArgs : CompleteTask(InstanceId, t, arg)
  \/ CompleteTask(UnknownId, 0, NoArg)
  \/ LoadProcessInstance
  \/ ClearPool
  \/ \E o \in DOMAIN objs, t \in Tasks, e \in Errors : HandlerFail(o, t, e)
  \/ \E o \in DOMAIN objs, d \in Invocations : Redeliver(o, d)
  \/ AckInsert
  \/ AckUpdate
  \/ AckDefSave
  \/ AckFind

Spec == Init /\ [][Next]_vars
\* The store answers every operation it was given: weak fairness of Answer,
\* whose enabling condition is that an operation is outstanding.
Answer == AckInsert \/ AckUpdate \/ AckDefSave \/ AckFind
FairSpec == Init /\ [][Next]_vars /\ ([]<>(ops = <<>>) \/ []<><<Answer>>_vars)

(***************************************************************************)
(* Reading the log.                                                        *)
(***************************************************************************)
Idx(kind, t) == {i \in DOMAIN log : log[i].ev = kind /\ log[i].task = t}
First(S) == CHOOSE i \in S : \A j \in S : i <= j
Last(S) == CHOOSE i \in S : \A j \in S : j <= i
IsEvent(e) == e.ev \in {"before", "after", "end"}
IsCall(e) == e.ev \in {"start", "completeTask", "clearPool", "load", "fail", "redeliver",
                         "completeUnknown"}
Shape(seq) == [i \in DOMAIN seq |-> <<seq[i].ev, seq[i].task>>]
\* the events emitted so far, and the calls made so far
Events == Shape(SelectSeq(log, IsEvent))
Calls == [i \in DOMAIN SelectSeq(log, IsCall) |->
            <<SelectSeq(log, IsCall)[i].ev, SelectSeq(log, IsCall)[i].task,
              SelectSeq(log, IsCall)[i].n>>]
NumIncoming(t) == Len(incomingFlows(t))

(***************************************************************************)
(* C1. AND-join: a non-start task T with N incoming flows is executed      *)
(* (before(T)) exactly at the arrival that makes its                       *)
(* incomingFlowCompletedNumber equal to N; after an arrival that leaves    *)
(* the counter below N the node is in nodePool and has not been executed.  *)
(***************************************************************************)
\* the last thing that happened to task t on object o
TouchIdx(o, t) ==
  {i \in DOMAIN log : log[i].obj = o /\ log[i].task = t
                        /\ log[i].ev \in {"arrive", "before", "after"}}

C1_AndJoin ==
  /\ \A i \in DOMAIN log :
       (log[i].ev = "before" /\ log[i].task # 0) =>
          /\ i > 1
          /\ log[i-1].ev = "arrive"
          /\ log[i-1].task = log[i].task
          /\ log[i-1].obj = log[i].obj
          /\ log[i-1].n = NumIncoming(log[i].task)
  /\ \A i \in DOMAIN log :
       (log[i].ev = "arrive" /\ log[i].n = NumIncoming(log[i].task)) =>
          /\ i < Len(log)
          /\ log[i+1].ev = "before"
          /\ log[i+1].task = log[i].task
          /\ log[i+1].obj = log[i].obj
  /\ \A o \in DOMAIN objs : \A t \in Tasks :
       (TouchIdx(o, t) # {} /\ log[Last(TouchIdx(o, t))].ev = "arrive"
          /\ log[Last(TouchIdx(o, t))].n < NumIncoming(t)) =>
          /\ t \in DOMAIN objs[o].nodePool
          /\ objs[o].nodePool[t].incomingFlowCompletedNumber = log[Last(TouchIdx(o, t))].n
          /\ ~objs[o].nodePool[t].executed
  /\ \A o \in DOMAIN objs : \A t \in DOMAIN objs[o].nodePool :
       objs[o].nodePool[t].incomingFlowCompletedNumber < NumIncoming(t)
          => ~objs[o].nodePool[t].executed

\* the join of the AND-join definition waited after one arrival and was
\* executed at the second
C1_Witness ==
  /\ def = JoinDef("service-task")
  /\ \E i, j \in DOMAIN log :
       /\ i < j /\ j < Len(log)
       /\ log[i].ev = "arrive" /\ log[i].task = 3 /\ log[i].n = 1
       /\ log[j].ev = "arrive" /\ log[j].task = 3 /\ log[j].n = 2
       /\ log[j+1].ev = "before" /\ log[j+1].task = 3

(***************************************************************************)
(* C2. For every task T that emits both events, before(T) precedes         *)
(* after(T); for every flow T -> S that is followed, after(T) precedes     *)
(* before(S).                                                              *)
(***************************************************************************)
C2_EventOrder ==
  /\ \A t \in Tasks :
       (Idx("before", t) # {} /\ Idx("after", t) # {}) =>
          First(Idx("before", t)) < First(Idx("after", t))
  /\ \A i \in DOMAIN log :
       log[i].ev = "arrive" =>
          /\ \E k \in Idx("after", log[i].src) : k < i
          /\ \A j \in Idx("before", log[i].task) :
               \E k \in Idx("after", log[i].src) : k < j

(***************************************************************************)
(* C3. A linear chain t0 -> ... -> t(n-1) of pass-through tasks ending in  *)
(* an end-task, started on a NEW instance with a store that answers every  *)
(* write, eventually has emitted exactly before(t0), after(t0), ...,       *)
(* before(t(n-1)), after(t(n-1)), end, and is COMPLETED from then on.      *)
(***************************************************************************)
IsPrefix(p, q) == Len(p) <= Len(q) /\ \A i \in DOMAIN p : p[i] = q[i]
ChainLen == Cardinality(Tasks)
IsChain == def = ChainDef(ChainLen)
ChainEvents ==
  [i \in 1..(2 * ChainLen + 1) |->
     IF i = 2 * ChainLen + 1 THEN <<"end", 0>>
     ELSE IF i % 2 = 1 THEN <<"before", (i - 1) \div 2>>
     ELSE <<"after", (i - 2) \div 2>>]
ChainDone == Events = ChainEvents /\ objs[1].status = STATUS_COMPLETED

Started == \E i \in DOMAIN log : log[i].ev = "start"

C3_Chain ==
  /\ [](IsChain => IsPrefix(Events, ChainEvents))
  /\ (IsChain /\ Started) ~> [](IsChain /\ ChainDone)

\* the chain of MaxChain tasks ran to its end
C3_Witness == def = ChainDef(MaxChain) /\ ChainDone

\* the single task that is both start and end ran to its end
C3_WitnessOne == def = ChainDef(1) /\ ChainDone
(***************************************************************************)
(* C4. For every sequence of start and completeTask calls each task T      *)
(* emits before(T) at most once, and exactly once when all of T's incoming *)
(* flows have fired (so the join of the AND-join definition is executed    *)
(* once, after the second of A and B completes).                           *)
(***************************************************************************)
Fired(flow) ==
  \E i \in DOMAIN log :
     log[i].ev = "arrive" /\ log[i].task = flow.to /\ log[i].src = flow.from
AllFired(t) ==
  \A k \in DOMAIN incomingFlows(t) : Fired(incomingFlows(t)[k])

C4_BeforeOnce ==
  \A t \in Tasks :
     /\ Cardinality(Idx("before", t)) <= 1
     /\ (t # 0 /\ AllFired(t)) => Cardinality(Idx("before", t)) = 1

(***************************************************************************)
(* C5. After any sequence of start, completeTask, clearPool and            *)
(* loadProcessInstance every node n of an instance's nodePool has          *)
(* 0 <= n.incomingFlowCompletedNumber <= number of incoming flows of its   *)
(* task.                                                                   *)
(***************************************************************************)
C5_CounterRange ==
  \A o \in DOMAIN objs : \A t \in DOMAIN objs[o].nodePool :
     /\ 0 <= objs[o].nodePool[t].incomingFlowCompletedNumber
     /\ objs[o].nodePool[t].incomingFlowCompletedNumber <= NumIncoming(t)

(***************************************************************************)
(* C6. An instance whose status is COMPLETED has an empty nodePool and has *)
(* emitted end exactly once.  Stated for the instances whose writes have   *)
(* all been answered, where the end that follows the COMPLETED write has   *)
(* been emitted.                                                           *)
(***************************************************************************)
Settled(o) == \A i \in DOMAIN ops : ops[i].obj # o
NumEnd == Cardinality({i \in DOMAIN log : log[i].ev = "end"})

C6_Completed ==
  \A o \in DOMAIN objs :
     (objs[o].status = STATUS_COMPLETED /\ Settled(o)) =>
        /\ DOMAIN objs[o].nodePool = {}
        /\ NumEnd = 1

(***************************************************************************)
(* C7. The status of an instance changes only NEW -> RUNNING,              *)
(* RUNNING -> WAITING, WAITING -> RUNNING, RUNNING -> COMPLETED and        *)
(* any -> FAILED.                                                          *)
(***************************************************************************)
Lifecycle ==
  {<<STATUS_NEW, STATUS_RUNNING>>, <<STATUS_RUNNING, STATUS_WAITING>>,
   <<STATUS_WAITING, STATUS_RUNNING>>, <<STATUS_RUNNING, STATUS_COMPLETED>>}
    \cup {<<st, STATUS_FAILED>> : st \in STATUS}

C7_Lifecycle ==
  [][\A o \in DOMAIN objs :
        objs'[o].status # objs[o].status =>
           <<objs[o].status, objs'[o].status>> \in Lifecycle]_vars

(***************************************************************************)
(* C8. When a node's complete is invoked with an error E the instance      *)
(* becomes FAILED with error = E, a write of that state is issued, no      *)
(* after event is emitted for the task, no outgoing flow is followed, and  *)
(* end is emitted when the write is answered.                              *)
(***************************************************************************)
IsWrite(op) == op.kind \in {"insert", "update"}

C8_Failure ==
  [][/\ \A o \in DOMAIN objs : \A t \in Tasks :
          log' = Append(log, Ev("fail", t, 0, 0, o)) =>
             /\ objs'[o].status = STATUS_FAILED
             /\ objs'[o].error \in Errors
             /\ objs'[o].nodePool = objs[o].nodePool
             /\ objs'[o].variables = objs[o].variables
             /\ Len(ops') = Len(ops) + 1
             /\ SubSeq(ops', 1, Len(ops)) = ops
             /\ IsWrite(ops'[Len(ops')])
             /\ ops'[Len(ops')].obj = o
             /\ ops'[Len(ops')].cb = "end"
             /\ ops'[Len(ops')].entity.status = STATUS_FAILED
             /\ ops'[Len(ops')].entity.error = objs'[o].error
     /\ (ops # <<>> /\ ops' = Tail(ops) /\ IsWrite(Head(ops))
           /\ Head(ops).cb = "end" /\ Head(ops).entity.status = STATUS_FAILED) =>
          log' = Append(log, Ev("end", 0, 0, 0, Head(ops).obj))
    ]_vars

\* a handler reported an error, the write was answered and end was emitted
C8_Witness ==
  \E i, j \in DOMAIN log :
     /\ i < j
     /\ log[i].ev = "fail" /\ log[j].ev = "end" /\ log[j].obj = log[i].obj
     /\ objs[log[i].obj].status = STATUS_FAILED
     /\ \A k \in DOMAIN log : k > i => log[k].ev # "after"

(***************************************************************************)
(* C9. Resume after restart: for start -> svc -> end, after start({x:1})   *)
(* has suspended the instance and the live pool has been emptied,          *)
(* completeTask(id, svc, {x:2}) reloads the instance and drives exactly    *)
(* after(svc), before(end), after(end), end, with final variables {x:2}    *)
(* and final status COMPLETED.                                             *)
(***************************************************************************)
ResumeCalls == <<<<"start", 0, 1>>, <<"clearPool", 0, 0>>, <<"completeTask", 1, 2>>>>
ResumeEvents ==
  <<<<"before", 0>>, <<"after", 0>>, <<"before", 1>>,
    <<"after", 1>>, <<"before", 2>>, <<"after", 2>>, <<"end", 0>>>>
Resumed == def = SvcDef /\ Calls = ResumeCalls /\ ops = <<>>

C9_Resume ==
  /\ (def = SvcDef /\ Calls = ResumeCalls) => IsPrefix(Events, ResumeEvents)
  /\ Resumed =>
       /\ Events = ResumeEvents
       /\ Len(objs) = 2
       /\ processPool = 2
       /\ objs[2].variables = 2
       /\ objs[2].status = STATUS_COMPLETED
       /\ \A i \in DOMAIN log :
            (log[i].ev \in {"after", "end"} /\ <<log[i].ev, log[i].task>> # <<"after", 0>>)
               => log[i].obj = 2

C9_Witness == Resumed /\ Events = ResumeEvents

(***************************************************************************)
(* C10. Round trip: deserialize(serialize(I)) has the same nodePool        *)
(* membership, the same incomingFlowCompletedNumber on every node, the     *)
(* same variables and the same status as I, for every reachable I.         *)
(***************************************************************************)
SameInstance(a, b) ==
  /\ DOMAIN a.nodePool = DOMAIN b.nodePool
  /\ \A t \in DOMAIN a.nodePool :
        a.nodePool[t].incomingFlowCompletedNumber = b.nodePool[t].incomingFlowCompletedNumber
  /\ a.variables = b.variables
  /\ a.status = b.status

C10_RoundTrip ==
  \A o \in DOMAIN objs : SameInstance(deserialize(serialize(objs[o])), objs[o])

(***************************************************************************)
(* C11. Decision with one matching branch: for start -> decide,            *)
(* decide -> A (x > 0), decide -> B (x <= 0), A -> end, B -> end, started  *)
(* with {x:5}, the events are before(start), after(start), before(decide), *)
(* after(decide), before(A), after(A), before(end), after(end), end; B     *)
(* never emits before and the instance reaches COMPLETED.  Stated at the   *)
(* point where the store has answered every operation of the run.          *)
(***************************************************************************)
DecideCalls == <<<<"start", 0, 5>>>>
DecideEvents ==
  <<<<"before", 0>>, <<"after", 0>>, <<"before", 1>>, <<"after", 1>>,
    <<"before", 2>>, <<"after", 2>>, <<"before", 4>>, <<"after", 4>>, <<"end", 0>>>>
Decided == def = DecideDef /\ Calls = DecideCalls /\ ops = <<>>

C11_Decision ==
  /\ (def = DecideDef /\ Calls = DecideCalls) =>
        /\ IsPrefix(Events, DecideEvents)
        /\ Idx("before", 3) = {}
  /\ Decided =>
        /\ Events = DecideEvents
        /\ objs[1].status = STATUS_COMPLETED

(***************************************************************************)
(* C12. Idempotence of the completion continuation: invoking a suspended   *)
(* node's complete continuation a second time with the same arguments is   *)
(* a no-op: it emits no event, leaves status, variables, error, nodePool   *)
(* and counters of every instance object as they were, and issues no       *)
(* store operation, so the store's contents stay the same.                 *)
(***************************************************************************)
IsRedelivery ==
  Len(log') > Len(log) /\ log'[Len(log) + 1].ev = "redeliver"

C12_Idempotent ==
  [][IsRedelivery =>
       /\ SelectSeq(log', IsEvent) = SelectSeq(log, IsEvent)
       /\ \A o \in DOMAIN objs : serialize(objs'[o]) = serialize(objs[o])
       /\ ops' = ops
       /\ docs' = docs]_vars

(***************************************************************************)
(* C13. completeTask with a process id that is in neither the live pool    *)
(* nor the store, or with a task id that is not a key of the instance's    *)
(* nodePool, reports a failure to the caller, emits no event, and leaves   *)
(* status, variables, error and nodePool of the instance unchanged.  The   *)
(* lookup fails in the call itself when the instance is in the live pool,  *)
(* and in the turn that answers the store lookup when it is not.           *)
(***************************************************************************)
FailsInCall ==
  \E p \in ProcessIds, t \in TaskIds, arg \in CompleteArgs :
     /\ p = InstanceId /\ processPool # 0
     /\ t \notin DOMAIN objs[processPool].nodePool
     /\ CompleteTask(p, t, arg)
FailsAfterLoad ==
  /\ ops # <<>> /\ Head(ops).kind = "find" /\ Head(ops).task >= 0
  /\ ops' = Tail(ops) /\ log' = log
Untouched ==
  /\ log' = log
  /\ \A o \in DOMAIN objs : serialize(objs'[o]) = serialize(objs[o])

C13_LookupError ==
  [][/\ FailsInCall => (result' = "TypeError" /\ Untouched)
     /\ FailsAfterLoad => (result' = "TypeError" /\ Untouched)]_vars

(***************************************************************************)
(* C14. clearPool removes from the live pool exactly the instances whose   *)
(* status is WAITING or COMPLETED; a NEW, RUNNING or FAILED instance stays *)
(* in the pool, and no instance's fields and no store document change.     *)
(***************************************************************************)
Evictable(o) == objs[o].status \in {STATUS_WAITING, STATUS_COMPLETED}

C14_ClearPool ==
  [][/\ ClearPool =>
          /\ (processPool # 0 /\ Evictable(processPool)) => processPool' = 0
          /\ (processPool # 0 /\ ~Evictable(processPool)) => processPool' = processPool
          /\ processPool = 0 => processPool' = 0
          /\ objs' = objs
          /\ docs' = docs
     /\ (processPool # 0 /\ processPool' = 0) =>
          /\ Evictable(processPool)
          /\ objs' = objs
          /\ docs' = docs]_vars

\* clearPool took the instance, WAITING or COMPLETED, out of the live pool
C14_Witness ==
  /\ processPool = 0
  /\ \E i \in DOMAIN log : log[i].ev = "clearPool"
  /\ \A o \in DOMAIN objs : Evictable(o)

(***************************************************************************)
(* C15. Every persistence write issued by an instance during a propagation *)
(* step has been acknowledged by the store before that instance emits its  *)
(* next event: while a write is outstanding, the instance that issued it   *)
(* has emitted no before, after or end since it issued the write.          *)
(***************************************************************************)
C15_WriteThenEvent ==
  \A i \in DOMAIN ops :
     IsWrite(ops[i]) =>
        \A k \in DOMAIN log :
           (k > ops[i].at /\ log[k].obj = ops[i].obj) => ~IsEvent(log[k])

(***************************************************************************)
(* C16. end is emitted only after the store has acknowledged the write     *)
(* that records the final status: end is emitted only in the turn that     *)
(* answers a write of the instance, the status of the instance is then     *)
(* COMPLETED or FAILED, and the document just acknowledged carries that    *)
(* same status.  A write that is never answered emits no end.              *)
(***************************************************************************)
EmitsEnd(o) ==
  /\ Len(log') > Len(log)
  /\ \E i \in (Len(log) + 1)..Len(log') : log'[i].ev = "end" /\ log'[i].obj = o

C16_EndAfterAck ==
  [][\A o \in DOMAIN objs :
        EmitsEnd(o) =>
           /\ ops # <<>>
           /\ IsWrite(Head(ops))
           /\ Head(ops).obj = o
           /\ objs'[o].status \in {STATUS_COMPLETED, STATUS_FAILED}
           /\ Head(ops).entity.status = objs'[o].status
           /\ \E d \in DOMAIN docs' : docs'[d].status = objs'[o].status]_vars

(***************************************************************************)
(* C17. Durable suspension state: whenever the instance in the live pool   *)
(* is WAITING and every store operation issued has been answered (no turn  *)
(* is running between two states), a stored document of the instance has   *)
(* the same status, variables and nodePool (task ids and                   *)
(* incomingFlowCompletedNumber values) as the instance in memory.          *)
(***************************************************************************)
SameAsStored(inst, doc) ==
  /\ doc.id = InstanceId
  /\ doc.status = inst.status
  /\ doc.variables = inst.variables
  /\ doc.nodePool = serialize(inst).nodePool

C17_Durable ==
  (processPool # 0 /\ objs[processPool].status = STATUS_WAITING /\ ops = <<>>) =>
     \E d \in DOMAIN docs : SameAsStored(objs[processPool], docs[d])

(***************************************************************************)
(* C18. After any sequence of start, completeTask, clearPool and           *)
(* loadProcessInstance the store holds at most one document per instance   *)
(* id: the first save inserts, every later save, also of a reloaded        *)
(* instance, updates that document.                                        *)
(***************************************************************************)
StoredFor(id) == {d \in DOMAIN docs : docs[d].id = id}

C18_OneDocument ==
  \A id \in ProcessIds : Cardinality(StoredFor(id)) <= 1

(***************************************************************************)
(* C19. Two completeTask calls for the same (processId, taskId), issued    *)
(* while the instance is absent from the live pool and interleaved at the  *)
(* store lookup, complete the task at most once: after(task) is emitted    *)
(* at most once after the two calls, each successor is executed at most    *)
(* once, and the lookups leave one instance object for the id.             *)
(***************************************************************************)
\* positions in the log of two completeTask calls for task t that both went
\* to the store: the second was made before the first lookup was answered
CallIdx(t) == {i \in DOMAIN log : log[i].ev = "completeTask" /\ log[i].task = t /\ log[i].obj = 0}
Raced(t) ==
  \E i, j \in CallIdx(t) :
     /\ i < j
     /\ \A k \in i..j : log[k].ev \notin {"after", "before", "end", "arrive"}
\* the events of that kind on task s since the first of the calls for task t
AfterCall(kind, s, t) == {k \in Idx(kind, s) : k > First(CallIdx(t))}

CompletedOnce ==
  \A t \in Tasks :
     Raced(t) =>
        /\ Cardinality(AfterCall("after", t, t)) <= 1
        /\ \A k \in DOMAIN outgoingFlows(t) :
              Cardinality(AfterCall("before", outgoingFlows(t)[k].to, t)) <= 1

C19_CompleteOnce ==
  [][/\ CompletedOnce'
     /\ (Len(objs') > Len(objs) /\ \E t \in TaskIds : Raced(t)) => processPool = 0]_vars

(***************************************************************************)
(* C20. FAILED is terminal: once the status of an instance is FAILED no    *)
(* later start, completeTask or node completion changes its status or its  *)
(* error, so status = FAILED implies error # null in every later state,    *)
(* and the instance does not emit end a second time.                       *)
(***************************************************************************)
EndsOf(o, l) == {i \in DOMAIN l : l[i].ev = "end" /\ l[i].obj = o}

C20_FailedTerminal ==
  [][\A o \in DOMAIN objs :
        /\ objs[o].status = STATUS_FAILED =>
              /\ objs'[o].status = STATUS_FAILED
              /\ objs'[o].error = objs[o].error
              /\ Cardinality(EndsOf(o, log')) <= 1
        /\ objs'[o].status = STATUS_FAILED => objs'[o].error # NoError]_vars
====
